---- MODULE Spec2Model ----
(***************************************************************************)
(* Model of compute_availability.py (bzg/ics-to-available-timeslots).      *)
(*                                                                         *)
(* Time is counted in whole minutes of wall-clock time in the single zone  *)
(* the script works in (DEFAULT_TZ); minute 0 is 00:00 of day 0, and day 0 *)
(* is a Monday.  A datetime is an integer, a date is a day number, a       *)
(* timedelta is a number of minutes.  An interval is a pair <<start, end>>.*)
(* Python lists are sequences; Python indices are 0-based, so list[i] is   *)
(* seq[i + 1].                                                             *)
(***************************************************************************)
EXTENDS Integers, Sequences, FiniteSets, TLC

VARIABLES
    pc,                    \* position of the run
    cal,                   \* the VEVENT components of the parsed calendar
    today,                 \* base date of the run (midnight)
    lead_days,             \* value of AVAILABILITY_LEAD_DAYS used by the run
    argv,                  \* the weeks argument of the command line
    weeks_ahead,           \* main.weeks_ahead
    start_date,            \* window start
    end_date,              \* window end
    ev_idx,                \* number of calendar components already walked
    last_call,             \* outcome of the last expand_recurring_events call
    warnings,              \* number of warnings printed to stderr
    unsorted_busy,         \* busy list as extended, before the sort of line 87
    busy_times,            \* busy list
    working_blocks,        \* working hour blocks
    min_duration_minutes,  \* third argument of compute_available_slots
    merged_busy,           \* busy_times after line 167 (local of compute_available_slots)
    available_slots        \* result of compute_available_slots

vars == <<pc, cal, today, lead_days, argv, weeks_ahead, start_date, end_date, ev_idx,
          last_call, warnings, unsorted_busy, busy_times, working_blocks,
          min_duration_minutes, merged_busy, available_slots>>

----------------------------------------------------------------------------
(* Program constants *)

DayMinutes == 1440
WeekMinutes == 10080
WORK_START_TIME == 810
WORK_END_TIME == 1020
AVAILABILITY_LEAD_DAYS == 3
DEFAULT_MIN_DURATION == 44
DEFAULT_WEEKS_AHEAD == 4
None == "None"

(* Bounds of the model *)

MaxBusy == 2
MaxMerge == 3
MaxEvents == 2
MaxLead == 4
MaxWeeks == 2
MaxToday == 13

----------------------------------------------------------------------------
(* Builtins *)

Min(a, b) == IF a < b THEN a ELSE b
Max(a, b) == IF a > b THEN a ELSE b

\* datetime.date()
DateOf(t) == t \div DayMinutes

\* date.weekday(): 0 = Monday ... 6 = Sunday
Weekday(d) == d % 7

\* datetime.combine(date, time)
Combine(d, tm) == d * DayMinutes + tm

\* bisect.bisect_left(a, x), lo and hi 0-based as in the library
RECURSIVE BisectLoop(_, _, _, _)
BisectLoop(a, x, lo, hi) ==
    IF lo < hi
    THEN LET mid == (lo + hi) \div 2
         IN  IF a[mid + 1] < x
             THEN BisectLoop(a, x, mid + 1, hi)
             ELSE BisectLoop(a, x, lo, mid)
    ELSE lo

bisect_left(a, x) == BisectLoop(a, x, 0, Len(a))

\* list.sort(key=lambda x: x[0]): stable, ascending by start
RECURSIVE InsertByStart(_, _)
InsertByStart(sorted, x) ==
    IF sorted = <<>> THEN <<x>>
    ELSE LET last == sorted[Len(sorted)]
         IN  IF last[1] <= x[1]
             THEN Append(sorted, x)
             ELSE Append(InsertByStart(SubSeq(sorted, 1, Len(sorted) - 1), x), last)

RECURSIVE SortLoop(_, _)
SortLoop(sorted, rest) ==
    IF rest = <<>> THEN sorted
    ELSE SortLoop(InsertByStart(sorted, Head(rest)), Tail(rest))

SortByStartIdentity(l) == l

SortByStart(l) == SortLoop(<<>>, l)

----------------------------------------------------------------------------
(* merge_overlapping_intervals *)

MergeTestStrict(current_start, last_end) == current_start < last_end

\* line 101: overlapping or adjacent
MergeTest(current_start, last_end) == current_start <= last_end

RECURSIVE MergeLoop(_, _)
MergeLoop(merged, rest) ==
    IF rest = <<>> THEN merged
    ELSE LET cur  == Head(rest)
             last == merged[Len(merged)]
         IN  IF MergeTest(cur[1], last[2])
             THEN MergeLoop([merged EXCEPT ![Len(merged)] =
                                <<last[1], Max(last[2], cur[2])>>], Tail(rest))
             ELSE MergeLoop(Append(merged, cur), Tail(rest))

RECURSIVE MergeLoopPreviousInput(_, _, _)
MergeLoopPreviousInput(merged, previous, rest) ==
    IF rest = <<>> THEN merged
    ELSE LET cur  == Head(rest)
             last == merged[Len(merged)]
         IN  IF MergeTest(cur[1], previous[2])
             THEN MergeLoopPreviousInput(
                      [merged EXCEPT ![Len(merged)] =
                          <<last[1], Max(last[2], cur[2])>>], cur, Tail(rest))
             ELSE MergeLoopPreviousInput(Append(merged, cur), cur, Tail(rest))

\* compares each interval with the one before it in the input, not with
\* the last merged one
merge_against_previous_input(intervals) ==
    IF intervals = <<>> THEN <<>>
    ELSE MergeLoopPreviousInput(<<intervals[1]>>, intervals[1], Tail(intervals))

merge_overlapping_intervals(intervals) ==
    IF intervals = <<>> THEN <<>>
    ELSE MergeLoop(<<intervals[1]>>, Tail(intervals))

----------------------------------------------------------------------------
(* compute_available_slots *)

LongEnoughNonStrict(slot_start, slot_end, min_duration) ==
    slot_end - slot_start >= min_duration

\* lines 172, 204, 212: duration strictly greater than the minimum
LongEnough(slot_start, slot_end, min_duration) ==
    slot_end - slot_start > min_duration

FirstIndexNoStepBack(busy_starts, work_start) ==
    bisect_left(busy_starts, work_start)

\* lines 182-185: binary search, then one step back
FirstIndex(busy_starts, work_start) ==
    LET idx == bisect_left(busy_starts, work_start)
    IN  IF idx > 0 THEN idx - 1 ELSE idx

\* lines 189-209: the while loop over busy_times for one working block;
\* returns the final cursor and the slots appended so far
RECURSIVE ScanBlock(_, _, _, _, _, _)
ScanBlock(busy, idx, current_start, work_end, min_duration, slots) ==
    IF idx >= Len(busy)
    THEN [current_start |-> current_start, slots |-> slots]
    ELSE LET busy_start == busy[idx + 1][1]
             busy_end   == busy[idx + 1][2]
         IN  IF busy_start >= work_end
             THEN [current_start |-> current_start, slots |-> slots]
             ELSE IF busy_end <= current_start
             THEN ScanBlock(busy, idx + 1, current_start, work_end,
                            min_duration, slots)
             ELSE LET slot_end == Min(busy_start, work_end)
                      slots2 ==
                          IF current_start < busy_start
                             /\ LongEnough(current_start, slot_end, min_duration)
                          THEN Append(slots, <<current_start, slot_end>>)
                          ELSE slots
                  IN  ScanBlock(busy, idx + 1, Max(current_start, busy_end),
                                work_end, min_duration, slots2)

BlockSlotsNoTrailing(busy, block, min_duration) ==
    LET busy_starts == [i \in 1..Len(busy) |-> busy[i][1]]
        idx == FirstIndex(busy_starts, block[1])
    IN  ScanBlock(busy, idx, block[1], block[2], min_duration, <<>>).slots

\* lines 179-213: one iteration of the for loop over working_blocks; the
\* slots it appends to available_slots
BlockSlots(busy, block, min_duration) ==
    LET work_start == block[1]
        work_end   == block[2]
        busy_starts == [i \in 1..Len(busy) |-> busy[i][1]]
        idx == FirstIndex(busy_starts, work_start)
        r   == ScanBlock(busy, idx, work_start, work_end, min_duration, <<>>)
    IN  IF r.current_start < work_end
           /\ LongEnough(r.current_start, work_end, min_duration)
        THEN Append(r.slots, <<r.current_start, work_end>>)
        ELSE r.slots

\* lines 177-215: the for loop; available_slots grows block after block
RECURSIVE BlocksLoop(_, _, _)
BlocksLoop(busy, blocks, min_duration) ==
    IF blocks = <<>> THEN <<>>
    ELSE BlockSlots(busy, Head(blocks), min_duration)
             \o BlocksLoop(busy, Tail(blocks), min_duration)

RECURSIVE FilterBlocks(_, _)
FilterBlocks(blocks, min_duration) ==
    IF blocks = <<>> THEN <<>>
    ELSE IF LongEnough(Head(blocks)[1], Head(blocks)[2], min_duration)
         THEN <<Head(blocks)>> \o FilterBlocks(Tail(blocks), min_duration)
         ELSE FilterBlocks(Tail(blocks), min_duration)

compute_available_slots(blocks, busy_in, min_minutes) ==
    IF blocks = <<>> THEN <<>>
    ELSE LET busy == merge_overlapping_intervals(busy_in)
         IN  IF busy = <<>>
             THEN FilterBlocks(blocks, min_minutes)
             ELSE BlocksLoop(busy, blocks, min_minutes)

----------------------------------------------------------------------------
(* Calendar components.  A property value is a date, a datetime or absent; *)
(* a recurrence rule is absent or a rule of dateutil: its starts are       *)
(* dtstart + k * period for k = 0, 1, ... (count of them, without end when *)
(* count = 0).  fail_at = k >= 0 is a rule that raises when its k-th start *)
(* is asked for: k = 0 is a rule rrulestr cannot parse, k > 0 one that     *)
(* fails while it is evaluated.                                            *)

Absent == [kind |-> "none", v |-> 0]
DateValue(d) == [kind |-> "date", v |-> d]
DateTimeValue(t) == [kind |-> "datetime", v |-> t]

NoRule == [kind |-> "none", period |-> 0, count |-> 0, fail_at |-> -1]
Rule(period, count) ==
    [kind |-> "rule", period |-> period, count |-> count, fail_at |-> -1]
FailingRule(period, k) ==
    [kind |-> "rule", period |-> period, count |-> 0, fail_at |-> k]

Component(name, dtstart, dtend, rrule) ==
    [name |-> name, dtstart |-> dtstart, dtend |-> dtend, rrule |-> rrule]

\* what a call returns: a value, or an exception that propagates;
\* warned counts the warnings the call printed
Returned(value, warned) == [raised |-> FALSE, value |-> value, warned |-> warned]
Raised == [raised |-> TRUE, value |-> <<>>, warned |-> 0]

\* the call made for component idx of the calendar, and its outcome
CallOf(idx, outcome) ==
    [idx |-> idx, raised |-> outcome.raised, value |-> outcome.value]
NoCall == [idx |-> 0, raised |-> FALSE, value |-> <<>>]

\* sys.argv: the weeks argument is absent, the text of an integer, or a word
NoArgument == [text |-> "absent", v |-> 0]
IntArgument(n) == [text |-> "int", v |-> n]
WordArgument == [text |-> "word", v |-> 0]

----------------------------------------------------------------------------
(* get_datetime_with_tz: a date becomes midnight of that day; attaching    *)
(* the default zone leaves the wall-clock minute as it is                  *)

get_datetime_with_tz(x) ==
    IF x.kind = "date" THEN Combine(x.v, 0) ELSE x.v

----------------------------------------------------------------------------
(* expand_recurring_events *)

InWindowExclusive(t, window_start, window_end) ==
    window_start < t /\ t < window_end

\* lines 49, 70: start_date <= dtstart <= end_date
InWindow(t, window_start, window_end) ==
    window_start <= t /\ t <= window_end

SingleOccurrenceNever(dtstart, dtend, window_start, window_end) == <<>>

\* lines 49-51 and 70-72
SingleOccurrence(dtstart, dtend, window_start, window_end) ==
    IF InWindow(dtstart, window_start, window_end)
    THEN << <<dtstart, dtend>> >>
    ELSE <<>>

\* lines 61-66: the for loop over the rule; k starts have been drawn
RECURSIVE RuleLoop(_, _, _, _, _, _, _)
RuleLoop(rule, k, dtstart, duration, window_start, window_end, occurrences) ==
    IF rule.fail_at = k THEN Raised
    ELSE IF rule.count # 0 /\ k >= rule.count THEN Returned(occurrences, 0)
    ELSE LET occurrence_start == dtstart + k * rule.period
         IN  IF occurrence_start > window_end
             THEN Returned(occurrences, 0)
             ELSE RuleLoop(rule, k + 1, dtstart, duration, window_start,
                           window_end,
                           IF occurrence_start >= window_start
                           THEN Append(occurrences,
                                    <<occurrence_start,
                                      occurrence_start + duration>>)
                           ELSE occurrences)

FallBackNothing(dtstart, dtend, window_start, window_end) == Returned(<<>>, 1)

\* lines 67-72: warn and fall back to the single occurrence
FallBack(dtstart, dtend, window_start, window_end) ==
    Returned(SingleOccurrence(dtstart, dtend, window_start, window_end), 1)

expand_recurring_events(event, window_start, window_end) ==
    IF event.dtstart.kind = "none" \/ event.dtend.kind = "none"
    THEN Raised                      \* event.get(...) is None: AttributeError
    ELSE LET dtstart == get_datetime_with_tz(event.dtstart)
             dtend   == get_datetime_with_tz(event.dtend)
         IN  IF event.rrule.kind = "none"
             THEN Returned(SingleOccurrence(dtstart, dtend, window_start,
                                            window_end), 0)
             ELSE LET r == RuleLoop(event.rrule, 0, dtstart, dtend - dtstart,
                                    window_start, window_end, <<>>)
                  IN  IF r.raised
                      THEN FallBack(dtstart, dtend, window_start, window_end)
                      ELSE r

----------------------------------------------------------------------------
(* generate_working_hours *)

IsBusinessDaySix(d) == Weekday(d) < 6

\* lines 119, 143: weekday() < 5
IsBusinessDay(d) == Weekday(d) < 5

RECURSIVE WorkingHoursLoop(_, _, _)
WorkingHoursLoop(current_date, end, blocks) ==
    IF current_date <= end
    THEN WorkingHoursLoop(current_date + 1, end,
             IF IsBusinessDay(current_date)
             THEN Append(blocks, <<Combine(current_date, WORK_START_TIME),
                                   Combine(current_date, WORK_END_TIME)>>)
             ELSE blocks)
    ELSE blocks

generate_working_hours(window_start, window_end) ==
    WorkingHoursLoop(DateOf(window_start), DateOf(window_end), <<>>)

----------------------------------------------------------------------------
(* calculate_availability_start_date; n is the value of the module         *)
(* constant AVAILABILITY_LEAD_DAYS                                         *)

KeepWalkingInclusive(working_days_added, n) == working_days_added <= n

\* line 141
KeepWalking(working_days_added, n) == working_days_added < n

RECURSIVE LeadLoop(_, _, _)
LeadLoop(current, working_days_added, n) ==
    IF KeepWalking(working_days_added, n)
    THEN LeadLoop(current + 1,
                  IF IsBusinessDay(current + 1)
                  THEN working_days_added + 1 ELSE working_days_added,
                  n)
    ELSE current

calculate_availability_start_date(base_date, n) ==
    Combine(LeadLoop(DateOf(base_date), 0, n), 0)

----------------------------------------------------------------------------
(* Inputs of the solver specification *)

\* Monday 13:00, 13:30, 14:14, 15:00, 15:30, 16:16, 17:00 and Tuesday 14:20
SolverInstants == {780, 810, 854, 900, 930, 976, 1020, 2300}

\* an Interval has start < end
SolverIntervals == {iv \in SolverInstants \X SolverInstants : iv[1] < iv[2]}

MondayBlock == <<Combine(0, WORK_START_TIME), Combine(0, WORK_END_TIME)>>
TuesdayBlock == <<Combine(1, WORK_START_TIME), Combine(1, WORK_END_TIME)>>

SolverBlockLists == {<<>>, <<MondayBlock>>, <<MondayBlock, TuesdayBlock>>}

SolverMinDurations == {0, DEFAULT_MIN_DURATION, 210}

SeqsUpTo(S, n) == UNION {[1..k -> S] : k \in 0..n}

----------------------------------------------------------------------------
(* Specification of the solver: compute_available_slots is called on a    *)
(* busy list, either as it is or after the sort of get_busy_times.        *)

mainVars == <<cal, today, lead_days, argv, weeks_ahead, start_date, end_date,
              ev_idx, last_call, warnings>>

InitSolver ==
    /\ pc = "input"
    /\ cal = <<>>
    /\ today = 0
    /\ lead_days = AVAILABILITY_LEAD_DAYS
    /\ argv = NoArgument
    /\ weeks_ahead = DEFAULT_WEEKS_AHEAD
    /\ start_date = 0
    /\ end_date = 0
    /\ ev_idx = 0
    /\ last_call = NoCall
    /\ warnings = 0
    /\ unsorted_busy \in SeqsUpTo(SolverIntervals, MaxBusy)
    /\ busy_times = unsorted_busy
    /\ working_blocks \in SolverBlockLists
    /\ min_duration_minutes \in SolverMinDurations
    /\ merged_busy = None
    /\ available_slots = None

\* get_busy_times, line 87: busy_times.sort(key=lambda x: x[0])
SortBusyTimes ==
    /\ pc = "input"
    /\ busy_times' = SortByStart(busy_times)
    /\ pc' = "sorted"
    /\ UNCHANGED <<mainVars, unsorted_busy, working_blocks,
                   min_duration_minutes, merged_busy, available_slots>>

\* compute_available_slots(working_blocks, busy_times, min_duration_minutes)
ComputeAvailableSlots ==
    /\ pc \in {"input", "sorted"}
    /\ merged_busy' = IF working_blocks = <<>> THEN None
                      ELSE merge_overlapping_intervals(busy_times)
    /\ available_slots' = compute_available_slots(working_blocks, busy_times,
                                                  min_duration_minutes)
    /\ pc' = IF pc = "sorted" THEN "solved_sorted" ELSE "solved"
    /\ UNCHANGED <<mainVars, unsorted_busy, busy_times, working_blocks,
                   min_duration_minutes>>

NextSolver == SortBusyTimes \/ ComputeAvailableSlots

SpecSolver == InitSolver /\ [][NextSolver]_vars

----------------------------------------------------------------------------
(* Vocabulary of the solver claims *)

Solved == pc \in {"solved", "solved_sorted"}

IsSortedByStart(l) == \A i \in 1..(Len(l) - 1) : l[i][1] <= l[i + 1][1]

Elems(l) == {l[i] : i \in 1..Len(l)}

\* the open intervals (a.start, a.end) and (b.start, b.end) intersect
Intersects(a, b) == a[1] < b[2] /\ b[1] < a[2] /\ a[1] < a[2] /\ b[1] < b[2]

Pad(iv, buffer) == <<iv[1] - buffer, iv[2] + buffer>>

\* buffer_minutes values of the claims: none, and the documented default
Buffers == {0, 10}

\* Every endpoint of an input interval or block; between two consecutive
\* points nothing starts or ends, so a point p stands for all instants
\* from p up to the next point.
Points == SolverInstants \cup {MondayBlock[1], MondayBlock[2],
                               TuesdayBlock[1], TuesdayBlock[2]}

Covers(iv, t) == iv[1] <= t /\ t < iv[2]

CoveredBy(l, t) == \E i \in 1..Len(l) : Covers(l[i], t)

PointsOf(block) == {t \in Points : Covers(block, t)}

ScenarioInput ==
    /\ working_blocks = <<MondayBlock>>
    /\ busy_times = << <<900, 930>> >>
    /\ min_duration_minutes = DEFAULT_MIN_DURATION

C2_SlotsLongerThanMin ==
    Solved =>
        \A i \in 1..Len(available_slots) :
            available_slots[i][2] - available_slots[i][1] > min_duration_minutes

\* a leading gap and a trailing remainder of exactly 44 minutes, both dropped
C2_Witness ==
    /\ Solved
    /\ working_blocks = <<MondayBlock>>
    /\ busy_times = << <<854, 976>> >>
    /\ min_duration_minutes = DEFAULT_MIN_DURATION
    /\ available_slots = <<>>

\* the whole block is exactly min_slot_minutes long and there is no busy time
C2_WitnessWholeBlock ==
    /\ Solved
    /\ working_blocks = <<MondayBlock>>
    /\ busy_times = <<>>
    /\ min_duration_minutes = MondayBlock[2] - MondayBlock[1]
    /\ available_slots = <<>>

SlotsIn(block) ==
    {sl \in Elems(available_slots) : block[1] <= sl[1] /\ sl[2] <= block[2]}

InSlotOf(block, t) == \E sl \in SlotsIn(block) : Covers(sl, t)

\* the maximal run of the block around t that no merged busy interval covers
FreeRunStart(block, t) ==
    LET ends == {b[2] : b \in {x \in Elems(merged_busy) : x[2] <= t}}
        c == ends \cup {block[1]}
    IN  CHOOSE m \in c : \A x \in c : x <= m

FreeRunEnd(block, t) ==
    LET starts == {b[1] : b \in {x \in Elems(merged_busy) : x[1] > t}}
        c == starts \cup {block[2]}
    IN  CHOOSE m \in c : \A x \in c : m <= x

\* C3 as stated: for every block and every busy list, each instant of the
\* block is in exactly one of the emitted slots and the merged busy
\* intervals.
C3_Original ==
    (Solved /\ working_blocks # <<>>) =>
        \A k \in 1..Len(working_blocks) : \A t \in PointsOf(working_blocks[k]) :
            InSlotOf(working_blocks[k], t) # CoveredBy(merged_busy, t)

\* C3 amended: for every block and every busy list sorted ascending by
\* start, every emitted slot lies inside one block, no instant of a block is
\* both in a slot and in a merged busy interval or in two slots, and every
\* instant of the block in neither lies in a busy-free run of the block that
\* is at most min_slot_minutes long.
C3_RoundTripUpToShortGaps ==
    (Solved /\ working_blocks # <<>> /\ IsSortedByStart(busy_times)) =>
        /\ \A sl \in Elems(available_slots) :
               \E k \in 1..Len(working_blocks) : sl \in SlotsIn(working_blocks[k])
        /\ \A i, j \in 1..Len(available_slots) :
               i # j => ~Intersects(available_slots[i], available_slots[j])
        /\ \A k \in 1..Len(working_blocks) : \A t \in PointsOf(working_blocks[k]) :
               LET block == working_blocks[k]
               IN  /\ ~(InSlotOf(block, t) /\ CoveredBy(merged_busy, t))
                   /\ (~InSlotOf(block, t) /\ ~CoveredBy(merged_busy, t)) =>
                         FreeRunEnd(block, t) - FreeRunStart(block, t)
                             <= min_duration_minutes

\* one gap of 46 minutes is emitted, the remainder of 44 minutes is dropped
C3_Witness ==
    /\ Solved
    /\ working_blocks = <<MondayBlock>>
    /\ busy_times = << <<780, 854>>, <<900, 976>> >>
    /\ min_duration_minutes = DEFAULT_MIN_DURATION
    /\ available_slots = << <<854, 900>> >>
    /\ ~InSlotOf(MondayBlock, 976) /\ ~CoveredBy(merged_busy, 976)

\* C4: for every list sorted ascending by start, every merged interval has
\* start < end, each starts strictly after the previous one ends, the merged
\* list covers exactly the instants the input covers, and an empty input
\* gives an empty output.
C4_MergedDisjointSameCover ==
    (Solved /\ working_blocks # <<>> /\ IsSortedByStart(busy_times)) =>
        /\ \A i \in 1..Len(merged_busy) : merged_busy[i][1] < merged_busy[i][2]
        /\ \A i \in 1..(Len(merged_busy) - 1) :
               merged_busy[i][2] < merged_busy[i + 1][1]
        /\ \A t \in Points : CoveredBy(merged_busy, t) <=> CoveredBy(busy_times, t)
        /\ Elems(merged_busy) \subseteq
               {<<a[1], b[2]>> : a \in Elems(busy_times), b \in Elems(busy_times)}
        /\ (busy_times = <<>>) => (merged_busy = <<>>)

\* two touching intervals fused into one
C4_Witness ==
    /\ Solved
    /\ working_blocks # <<>>
    /\ busy_times = << <<780, 854>>, <<854, 900>> >>
    /\ merged_busy = << <<780, 900>> >>

Perms(l) == {[i \in 1..Len(l) |-> l[f[i]]] : f \in Permutations(1..Len(l))}

\* C5 as stated: the solver called on any permutation of the busy list
\* returns what it returns on the list sorted ascending by start.
C5_Original ==
    (pc = "solved") =>
        available_slots = compute_available_slots(working_blocks,
                              SortByStart(busy_times), min_duration_minutes)

\* C5 amended: the sort is the caller's (get_busy_times, line 87), not the
\* solver's.  For every list of working blocks and every busy list, sorting
\* any permutation of the busy list by start and then running the solver
\* gives one and the same result.
C5_SortedThenSolvedOrderFree ==
    (pc = "solved_sorted") =>
        \A p \in Perms(unsorted_busy) :
            available_slots = compute_available_slots(working_blocks,
                                  SortByStart(p), min_duration_minutes)

\* an unsorted list, sorted by the caller; the direct call would differ
C5_Witness ==
    /\ pc = "solved_sorted"
    /\ unsorted_busy = << <<900, 930>>, <<780, 854>> >>
    /\ busy_times = << <<780, 854>>, <<900, 930>> >>
    /\ working_blocks = <<MondayBlock>>
    /\ min_duration_minutes = 0
    /\ available_slots = << <<854, 900>>, <<930, 1020>> >>

----------------------------------------------------------------------------
(* Specification of the working-calendar functions:                       *)
(* calculate_availability_start_date for every base date and lead count,  *)
(* generate_working_hours for the window main derives and for windows of   *)
(* other shapes.                                                           *)

CalendarTodays == {Combine(d, tod) : d \in 0..MaxToday, tod \in {0, 870}}

WindowLengths == {-DayMinutes, 0, 600, 3 * DayMinutes + 30, WeekMinutes + 900}

InitCalendar ==
    /\ pc = "input"
    /\ cal = <<>>
    /\ today \in CalendarTodays
    /\ lead_days \in 0..MaxLead
    /\ argv = NoArgument
    /\ weeks_ahead \in 0..MaxWeeks
    /\ start_date = today
    /\ end_date \in {today + l : l \in WindowLengths}
    /\ ev_idx = 0
    /\ last_call = NoCall
    /\ warnings = 0
    /\ unsorted_busy = <<>>
    /\ busy_times = <<>>
    /\ working_blocks = None
    /\ min_duration_minutes = DEFAULT_MIN_DURATION
    /\ merged_busy = None
    /\ available_slots = None

\* main, lines 274-275
SetUpDateRange ==
    /\ pc = "input"
    /\ start_date' = calculate_availability_start_date(today, lead_days)
    /\ end_date' = start_date' + weeks_ahead * WeekMinutes
    /\ pc' = "range"
    /\ UNCHANGED <<cal, today, lead_days, argv, weeks_ahead, ev_idx, last_call,
                   warnings, unsorted_busy, busy_times, working_blocks,
                   min_duration_minutes, merged_busy, available_slots>>

\* generate_working_hours(start_date, end_date)
GenerateWorkingHours ==
    /\ pc \in {"input", "range"}
    /\ working_blocks' = generate_working_hours(start_date, end_date)
    /\ pc' = IF pc = "range" THEN "blocks_range" ELSE "blocks"
    /\ UNCHANGED <<mainVars, unsorted_busy, busy_times,
                   min_duration_minutes, merged_busy, available_slots>>

NextCalendar == SetUpDateRange \/ GenerateWorkingHours

SpecCalendar == InitCalendar /\ [][NextCalendar]_vars

----------------------------------------------------------------------------
(* Vocabulary of the working-calendar claims *)

MonToFri(d) == Weekday(d) \in 0..4

\* number of Monday-Friday dates d with a < d <= b
WeekdaysBetween(a, b) == Cardinality({d \in (a + 1)..b : MonToFri(d)})

RangeSet == pc \in {"range", "blocks_range"}

LeadExamples ==
    lead_days = 3 =>
        /\ Weekday(DateOf(today)) = 1 => DateOf(start_date) = DateOf(today) + 3
        /\ Weekday(DateOf(today)) = 5 => DateOf(start_date) = DateOf(today) + 4
        /\ Weekday(DateOf(today)) = 6 => DateOf(start_date) = DateOf(today) + 3

ExpectedDays == {d \in DateOf(start_date)..DateOf(end_date) : MonToFri(d)}

\* C8: the blocks are, in ascending order and without overlap, exactly one
\* block [date + 13:30, date + 17:00] for each Monday-Friday date between
\* the date of the window start and the date of the window end, and nothing
\* else.
C8_OneBlockPerWeekday ==
    (pc \in {"blocks", "blocks_range"}) =>
        /\ Len(working_blocks) = Cardinality(ExpectedDays)
        /\ \A i \in 1..Len(working_blocks) : \E d \in ExpectedDays :
               working_blocks[i] = <<d * DayMinutes + WORK_START_TIME,
                                     d * DayMinutes + WORK_END_TIME>>
        /\ \A i \in 1..(Len(working_blocks) - 1) :
               working_blocks[i][2] < working_blocks[i + 1][1]

\* a window from Friday afternoon to Monday afternoon: two blocks
C8_Witness ==
    /\ pc = "blocks"
    /\ start_date = Combine(4, 870)
    /\ end_date = Combine(7, 900)
    /\ working_blocks = << <<Combine(4, 810), Combine(4, 1020)>>,
                           <<Combine(7, 810), Combine(7, 1020)>> >>

----------------------------------------------------------------------------
(* Specification of a run of main *)

\* Tuesday (availability starts Friday, day 4) and Saturday (it starts
\* Wednesday, day 9)
MainTodays == {Combine(1, 0), Combine(5, 0)}

MainArguments == {NoArgument, WordArgument} \cup
                 {IntArgument(n) : n \in (-1)..MaxWeeks}

Meeting ==          \* Friday day 4, 14:00-14:30
    Component("VEVENT", DateTimeValue(6600), DateTimeValue(6630), NoRule)
AllDay ==           \* all of Friday day 4
    Component("VEVENT", DateValue(4), DateValue(5), NoRule)
AllDayWeekly ==     \* all of Friday day 4, every week
    Component("VEVENT", DateValue(4), DateValue(5), Rule(WeekMinutes, 0))
MondayWeekly ==     \* Monday day 0, 09:00-09:30, every week
    Component("VEVENT", DateTimeValue(540), DateTimeValue(570),
              Rule(WeekMinutes, 0))
Overnight ==        \* Thursday day 3, 23:00 to Friday day 4, 14:00
    Component("VEVENT", DateTimeValue(5700), DateTimeValue(6600), NoRule)
NextFriday ==       \* Friday day 11, 14:00-15:00
    Component("VEVENT", DateTimeValue(16680), DateTimeValue(16740), NoRule)
DailyThrice ==      \* Thursday day 3, 15:00-15:30, daily, three times
    Component("VEVENT", DateTimeValue(5220), DateTimeValue(5250),
              Rule(DayMinutes, 3))
Unparseable ==      \* Friday day 4, 14:00-14:30, rule that cannot be parsed
    Component("VEVENT", DateTimeValue(6600), DateTimeValue(6630),
              FailingRule(WeekMinutes, 0))
FailsLater ==       \* Monday day 0, 09:00, weekly, fails at its second start
    Component("VEVENT", DateTimeValue(540), DateTimeValue(570),
              FailingRule(WeekMinutes, 1))
FailsThird ==       \* Friday day 4, 14:00, weekly, fails at its third start
    Component("VEVENT", DateTimeValue(6600), DateTimeValue(6630),
              FailingRule(WeekMinutes, 2))
NoStart ==          \* no DTSTART
    Component("VEVENT", Absent, DateTimeValue(6630), NoRule)
NoEnd ==            \* no DTEND
    Component("VEVENT", DateTimeValue(6600), Absent, Rule(WeekMinutes, 0))
TimeZone ==         \* a component that is no event
    Component("VTIMEZONE", Absent, Absent, NoRule)

Components == {Meeting, AllDay, AllDayWeekly, MondayWeekly, Overnight, NextFriday,
               DailyThrice, Unparseable, FailsLater, FailsThird, NoStart,
               NoEnd, TimeZone}

InitMain ==
    /\ pc = "args"
    /\ cal \in SeqsUpTo(Components, MaxEvents)
    /\ today \in MainTodays
    /\ lead_days = AVAILABILITY_LEAD_DAYS
    /\ argv \in MainArguments
    /\ weeks_ahead = DEFAULT_WEEKS_AHEAD
    /\ start_date = 0
    /\ end_date = 0
    /\ ev_idx = 0
    /\ last_call = NoCall
    /\ warnings = 0
    /\ unsorted_busy = <<>>
    /\ busy_times = <<>>
    /\ working_blocks = None
    /\ min_duration_minutes = DEFAULT_MIN_DURATION
    /\ merged_busy = None
    /\ available_slots = None

\* lines 256-270: int() of a word raises ValueError, which nothing catches
MainParseArgs ==
    /\ pc = "args"
    /\ IF argv.text = "word"
       THEN pc' = "error" /\ UNCHANGED weeks_ahead
       ELSE /\ pc' = "parsed"
            /\ weeks_ahead' = IF argv.text = "int" THEN argv.v ELSE weeks_ahead
    /\ UNCHANGED <<cal, today, lead_days, argv, start_date, end_date, ev_idx,
                   last_call, warnings, unsorted_busy, busy_times,
                   working_blocks, min_duration_minutes, merged_busy,
                   available_slots>>

\* lines 273-283
MainSetUpDateRange ==
    /\ pc = "parsed"
    /\ start_date' = calculate_availability_start_date(today, lead_days)
    /\ end_date' = start_date' + weeks_ahead * WeekMinutes
    /\ pc' = "walk"
    /\ UNCHANGED <<cal, today, lead_days, argv, weeks_ahead, ev_idx, last_call,
                   warnings, unsorted_busy, busy_times, working_blocks,
                   min_duration_minutes, merged_busy, available_slots>>

\* get_busy_times, lines 79-84: one component of cal.walk()
MainWalkComponent ==
    /\ pc = "walk"
    /\ ev_idx < Len(cal)
    /\ LET component == cal[ev_idx + 1]
           r == expand_recurring_events(component, start_date, end_date)
       IN  IF component.name = "VEVENT"
           THEN /\ last_call' = CallOf(ev_idx + 1, r)
                /\ IF r.raised
                   THEN /\ warnings' = warnings + 1
                        /\ UNCHANGED <<busy_times, unsorted_busy>>
                   ELSE /\ warnings' = warnings + r.warned
                        /\ busy_times' = busy_times \o r.value
                        /\ unsorted_busy' = busy_times'
           ELSE UNCHANGED <<last_call, warnings, busy_times, unsorted_busy>>
    /\ ev_idx' = ev_idx + 1
    /\ UNCHANGED <<pc, cal, today, lead_days, argv, weeks_ahead, start_date,
                   end_date, working_blocks, min_duration_minutes,
                   merged_busy, available_slots>>

\* get_busy_times, lines 86-88
MainSortBusyTimes ==
    /\ pc = "walk"
    /\ ev_idx = Len(cal)
    /\ busy_times' = SortByStart(busy_times)
    /\ pc' = "busy"
    /\ UNCHANGED <<mainVars, unsorted_busy, working_blocks,
                   min_duration_minutes, merged_busy, available_slots>>

\* line 292
MainGenerateWorkingHours ==
    /\ pc = "busy"
    /\ working_blocks' = generate_working_hours(start_date, end_date)
    /\ pc' = "blocks"
    /\ UNCHANGED <<mainVars, unsorted_busy, busy_times,
                   min_duration_minutes, merged_busy, available_slots>>

\* line 297
MainComputeAvailableSlots ==
    /\ pc = "blocks"
    /\ merged_busy' = IF working_blocks = <<>> THEN None
                      ELSE merge_overlapping_intervals(busy_times)
    /\ available_slots' = compute_available_slots(working_blocks, busy_times,
                                                  min_duration_minutes)
    /\ pc' = "slots"
    /\ UNCHANGED <<mainVars, unsorted_busy, busy_times, working_blocks,
                   min_duration_minutes>>

\* lines 300-311: the slot list is written out and the run ends
MainWriteOutput ==
    /\ pc = "slots"
    /\ pc' = "done"
    /\ UNCHANGED <<mainVars, unsorted_busy, busy_times, working_blocks,
                   min_duration_minutes, merged_busy, available_slots>>

NextMain ==
    \/ MainParseArgs
    \/ MainSetUpDateRange
    \/ MainWalkComponent
    \/ MainSortBusyTimes
    \/ MainGenerateWorkingHours
    \/ MainComputeAvailableSlots
    \/ MainWriteOutput

SpecMain == InitMain /\ [][NextMain]_vars

----------------------------------------------------------------------------
(* Vocabulary of the expander claims *)

MinuteOf(x) == IF x.kind = "date" THEN x.v * DayMinutes ELSE x.v

WellFormed(c) ==
    c.name = "VEVENT" /\ c.dtstart.kind # "none" /\ c.dtend.kind # "none"

\* the starts the rule of c generates, up to the window end
RuleStarts(c) ==
    IF end_date < MinuteOf(c.dtstart) THEN {}
    ELSE {MinuteOf(c.dtstart) + k * c.rrule.period :
            k \in {j \in 0..((end_date - MinuteOf(c.dtstart)) \div c.rrule.period) :
                      c.rrule.count = 0 \/ j < c.rrule.count}}

\* the rule of c raises before the loop leaves the window
RuleFails(c) ==
    /\ c.rrule.kind = "rule"
    /\ c.rrule.fail_at >= 0
    /\ \A k \in 0..(c.rrule.fail_at - 1) :
           MinuteOf(c.dtstart) + k * c.rrule.period <= end_date

OwnOccurrence(c) ==
    IF start_date <= MinuteOf(c.dtstart) /\ MinuteOf(c.dtstart) <= end_date
    THEN {<<MinuteOf(c.dtstart), MinuteOf(c.dtend)>>}
    ELSE {}

\* the occurrences of a well-formed event whose rule does not fail
WindowOccurrences(c) ==
    IF c.rrule.kind = "none" THEN OwnOccurrence(c)
    ELSE {<<t, t + (MinuteOf(c.dtend) - MinuteOf(c.dtstart))>> :
             t \in {u \in RuleStarts(c) : start_date <= u /\ u <= end_date}}

\* seq lists the elements of set once each, ascending by start
ListsAscending(seq, set) ==
    /\ Len(seq) = Cardinality(set)
    /\ \A i \in 1..Len(seq) : seq[i] \in set
    /\ \A i \in 1..(Len(seq) - 1) : seq[i][1] < seq[i + 1][1]

Expanded ==
    /\ last_call.idx > 0
    /\ WellFormed(cal[last_call.idx])
    /\ ~RuleFails(cal[last_call.idx])

\* an endless weekly series that began by the window start, in a window of
\* two weeks
WeeklyOverTwoWeeks(c) ==
    /\ c.rrule.kind = "rule" /\ c.rrule.period = WeekMinutes
    /\ c.rrule.count = 0 /\ c.rrule.fail_at = -1
    /\ MinuteOf(c.dtstart) <= start_date
    /\ end_date - start_date = 2 * WeekMinutes

\* C6 as stated: the expander returns, ascending, exactly the occurrences
\* whose start lies in [window_start, window_end]; a weekly event over a
\* window of two weeks gives exactly 2 occurrences.
C6_Original ==
    Expanded =>
        LET c == cal[last_call.idx]
        IN  /\ ~last_call.raised
            /\ ListsAscending(last_call.value, WindowOccurrences(c))
            /\ WeeklyOverTwoWeeks(c) => Len(last_call.value) = 2

\* C6 amended: the expander returns, ascending, exactly the occurrences
\* whose start lies in [window_start, window_end]; a weekly event over a
\* window of two weeks gives exactly 2 occurrences, or 3 when one of its
\* occurrences starts exactly at window_start (the one at window_end is
\* then in the window too).
C6_ExactlyTheWindowOccurrences ==
    Expanded =>
        LET c == cal[last_call.idx]
        IN  /\ ~last_call.raised
            /\ ListsAscending(last_call.value, WindowOccurrences(c))
            /\ WeeklyOverTwoWeeks(c) =>
                  Len(last_call.value) =
                      IF (start_date - MinuteOf(c.dtstart)) % WeekMinutes = 0
                      THEN 3 ELSE 2

\* Monday 09:00 weekly, window Friday day 4 to Friday day 18: two Mondays
C6_Witness ==
    /\ last_call.idx > 0
    /\ cal[last_call.idx] = MondayWeekly
    /\ start_date = Combine(4, 0)
    /\ end_date = Combine(18, 0)
    /\ last_call.value = << <<Combine(7, 540), Combine(7, 570)>>,
                            <<Combine(14, 540), Combine(14, 570)>> >>

\* all-day weekly event on the day the window starts: three occurrences
C6_WitnessBoundary ==
    /\ last_call.idx > 0
    /\ cal[last_call.idx] = AllDayWeekly
    /\ start_date = Combine(4, 0)
    /\ end_date = Combine(18, 0)
    /\ Len(last_call.value) = 3

\* what component i is to contribute to the busy list
Contribution(c) ==
    IF ~WellFormed(c) THEN {}
    ELSE IF RuleFails(c) THEN OwnOccurrence(c)
    ELSE WindowOccurrences(c)

Failed(c) == c.name = "VEVENT" /\ (~WellFormed(c) \/ RuleFails(c))

BusyListed == pc \in {"busy", "blocks", "slots", "done"}

\* C9: no event aborts the run; the busy list holds, for every well-formed
\* event whose rule works, each of its in-window occurrences, for every
\* event whose rule fails its own (start, end) if its start is in the
\* window, and nothing else; every failure is one warning.
C9_BadEventsDoNotAbort ==
    /\ pc = "error" => argv.text = "word"
    /\ BusyListed =>
         /\ \A iv \in Elems(busy_times) \cup
                       UNION {Contribution(cal[i]) : i \in 1..Len(cal)} :
                Cardinality({j \in 1..Len(busy_times) : busy_times[j] = iv})
                  = Cardinality({i \in 1..Len(cal) : iv \in Contribution(cal[i])})
         /\ warnings = Cardinality({i \in 1..Len(cal) : Failed(cal[i])})

\* an event without DTSTART and a weekly event: one warning, two Mondays
C9_Witness ==
    /\ pc = "busy"
    /\ cal = <<NoStart, MondayWeekly>>
    /\ start_date = Combine(4, 0)
    /\ end_date = Combine(18, 0)
    /\ warnings = 1
    /\ busy_times = << <<Combine(7, 540), Combine(7, 570)>>,
                       <<Combine(14, 540), Combine(14, 570)>> >>

\* a rule that cannot be parsed: the event's own start and end, one warning
C9_WitnessRule ==
    /\ pc = "busy"
    /\ cal = <<Unparseable, NextFriday>>
    /\ start_date = Combine(4, 0)
    /\ end_date = Combine(18, 0)
    /\ warnings = 1
    /\ busy_times = << <<6600, 6630>>, <<16680, 16740>> >>

\* C10 as stated: a window whose end precedes its start is rejected before
\* any computation begins: the run ends in an error and returns no slot
\* list.
C10_Original ==
    (argv.text = "int" /\ argv.v < 0) => pc # "done"

----------------------------------------------------------------------------
(* Specification of the merger: merge_overlapping_intervals is called on   *)
(* a list of intervals, and once more on what it returned.                 *)

\* Monday 13:00, 13:30, 14:14, 15:00, 15:30, 16:16
MergeInstants == {780, 810, 854, 900, 930, 976}

MergeIntervals == {iv \in MergeInstants \X MergeInstants : iv[1] < iv[2]}

InitMerge ==
    /\ pc = "input"
    /\ cal = <<>>
    /\ today = 0
    /\ lead_days = AVAILABILITY_LEAD_DAYS
    /\ argv = NoArgument
    /\ weeks_ahead = DEFAULT_WEEKS_AHEAD
    /\ start_date = 0
    /\ end_date = 0
    /\ ev_idx = 0
    /\ last_call = NoCall
    /\ warnings = 0
    /\ unsorted_busy \in SeqsUpTo(MergeIntervals, MaxMerge)
    /\ busy_times = unsorted_busy
    /\ working_blocks = <<MondayBlock>>
    /\ min_duration_minutes = DEFAULT_MIN_DURATION
    /\ merged_busy = None
    /\ available_slots = None

\* merge_overlapping_intervals(busy_times), as at line 167
MergeBusyTimes ==
    /\ pc = "input"
    /\ merged_busy' = merge_overlapping_intervals(busy_times)
    /\ pc' = "merged"
    /\ UNCHANGED <<mainVars, unsorted_busy, busy_times, working_blocks,
                   min_duration_minutes, available_slots>>

\* merge_overlapping_intervals called on its own result
MergeAgain ==
    /\ pc = "merged"
    /\ busy_times' = merged_busy
    /\ merged_busy' = merge_overlapping_intervals(merged_busy)
    /\ pc' = "merged_again"
    /\ UNCHANGED <<mainVars, unsorted_busy, working_blocks,
                   min_duration_minutes, available_slots>>

NextMerge == MergeBusyTimes \/ MergeAgain

SpecMerge == InitMerge /\ [][NextMerge]_vars

\* C11: for every list sorted ascending by start, merging the merged list
\* returns it unchanged: merge(merge(L)) = merge(L).
C11_MergeIdempotent ==
    (pc = "merged_again" /\ IsSortedByStart(unsorted_busy)) =>
        merged_busy = busy_times

\* three intervals fused into one by the first merge, and kept by the second
C11_Witness ==
    /\ pc = "merged_again"
    /\ unsorted_busy = << <<780, 976>>, <<810, 854>>, <<900, 930>> >>
    /\ busy_times = << <<780, 976>> >>
    /\ merged_busy = << <<780, 976>> >>

----------------------------------------------------------------------------
(* The per-block scan of the solver, against the free time of each block   *)

\* the maximal intervals of the block that no busy interval intersects:
\* each starts at the block start or where a busy interval ends, and ends
\* at the block end or where a busy interval starts
MaximalFreeRuns(block) ==
    LET busy == Elems(busy_times)
        froms == {block[1]} \cup {b[2] : b \in busy}
        tos   == {block[2]} \cup {b[1] : b \in busy}
    IN  {run \in froms \X tos :
            /\ block[1] <= run[1] /\ run[1] < run[2] /\ run[2] <= block[2]
            /\ \A b \in busy : ~Intersects(run, b)
            /\ run[1] = block[1] \/ \E b \in busy : b[1] < run[1] /\ run[1] <= b[2]
            /\ run[2] = block[2] \/ \E b \in busy : b[1] <= run[2] /\ run[2] < b[2]}

ExpectedSlots ==
    UNION {{run \in MaximalFreeRuns(working_blocks[k]) :
               run[2] - run[1] > min_duration_minutes} :
           k \in 1..Len(working_blocks)}

\* C12: for ascending, non-overlapping blocks and a busy list sorted by
\* start, the solver returns, in chronological order, exactly the maximal
\* sub-intervals of each block that no busy interval covers and that are
\* longer than min_slot_minutes; a busy interval that only touches a block
\* boundary removes nothing from the block.
C12_ExactlyTheLongFreeRuns ==
    (Solved /\ IsSortedByStart(busy_times)) =>
        ListsAscending(available_slots, ExpectedSlots)

\* one busy interval ends where Monday's block starts, the other starts
\* where it ends and runs into Tuesday's block: Monday's block is returned
\* whole, Tuesday's from the end of the busy interval found one step back
C12_Witness ==
    /\ Solved
    /\ working_blocks = <<MondayBlock, TuesdayBlock>>
    /\ busy_times = << <<780, 810>>, <<1020, 2300>> >>
    /\ min_duration_minutes = DEFAULT_MIN_DURATION
    /\ available_slots = << MondayBlock, <<2300, TuesdayBlock[2]>> >>

----------------------------------------------------------------------------
(* The whole run, against the occurrences of the calendar's events         *)

\* an event with a start and an end whose rule, if any, can be evaluated
Regular(c) == WellFormed(c) /\ c.rrule.fail_at < 0

\* every occurrence of the event that starts by the end of the window's
\* last calendar date, whether or not its start lies in the window
EventOccurrences(c) ==
    LET first == MinuteOf(c.dtstart)
        duration == MinuteOf(c.dtend) - first
        horizon == DateOf(end_date) + DayMinutes
    IN  IF c.rrule.kind = "none" THEN {<<first, first + duration>>}
        ELSE IF horizon < first THEN {}
        ELSE {<<first + k * c.rrule.period,
                first + k * c.rrule.period + duration>> :
                 k \in {j \in 0..((horizon - first) \div c.rrule.period) :
                           c.rrule.count = 0 \/ j < c.rrule.count}}

\* C13: at the end of a run (expand every event over the window, sort,
\* generate the working blocks of the same window, solve), no emitted slot
\* overlaps any occurrence of any calendar event, including occurrences
\* that start before window_start and end inside the window, and
\* occurrences that start after window_end on the window's last date.
C13_Original ==
    pc = "done" =>
        \A i \in 1..Len(cal) :
            Regular(cal[i]) =>
                \A occ \in EventOccurrences(cal[i]) :
                    \A k \in 1..Len(available_slots) :
                        ~Intersects(available_slots[k], occ)

====
